---- MODULE Spec2Model ----
(***************************************************************************)
(* Model of the support-ticket intake service (src/app): the               *)
(* submit_screenshot handler of main.py with the collaborators it calls    *)
(* (gemini_service.py, opensearch_service.py) and the two relational       *)
(* tables it writes (models_db.py).                                        *)
(*                                                                         *)
(* A request is handled by one coroutine; every external call it makes is  *)
(* a step of the model whose outcome (success with some value, or one of   *)
(* the ways the call can fail) is chosen nondeterministically.  Requests   *)
(* are taken one after the other: the handler shares no mutable state      *)
(* between requests except the two tables, which it only inserts into.     *)
(***************************************************************************)
EXTENDS Integers, Sequences, FiniteSets, TLC

(* ------------------------------ bounds --------------------------------- *)
\* number of submit_screenshot requests served one after the other (SpecSeq)
MaxRequests == 2
\* largest top_k a request asks for
MaxTopK == 2

(* --------------------------- JSON-like values -------------------------- *)
\* Python None / str / number / a text kept as a sequence of characters
JNone == [t |-> "none", s |-> ""]
JStr(s) == [t |-> "str", s |-> s]
JNum(s) == [t |-> "num", s |-> s]
JText(cs) == [t |-> "text", s |-> cs]

\* Python truthiness of a value: None, "" and 0 are falsy
Truthy(v) ==
  \/ v.t = "str" /\ v.s # ""
  \/ v.t = "num" /\ v.s # "0"
  \/ v.t = "text" /\ v.s # <<>>

\* dict.get(k): the value, or None when the key is absent
Get(d, k) == IF k \in DOMAIN d THEN d[k] ELSE JNone

\* "x or default" for an Optional[str]
OrStr(v, default) == IF Truthy(v) THEN v.s ELSE default

EmptyDict == [k \in {} |-> JNone]
\* what r.json() can be: a JSON object, or a JSON array (no .get)
Dict(d) == [kind |-> "dict", d |-> d]
JList == [kind |-> "list", d |-> EmptyDict]

\* sep.join(parts)
RECURSIVE Join(_, _)
Join(parts, sep) ==
  IF parts = <<>> THEN ""
  ELSE IF Len(parts) = 1 THEN parts[1]
  ELSE parts[1] \o sep \o Join(Tail(parts), sep)

(* ------------------------------ models.py ------------------------------ *)
\* ExtractedFields.model_fields
EFKeys == {"order_id", "tracking_no", "product_name", "price", "issue_type",
           "confidence", "low_confidence"}
EFStrKeys == {"order_id", "tracking_no", "product_name", "price", "issue_type"}

\* ExtractedFields(): every field None
AllNull == [k \in EFKeys |-> JNone]

\* ExtractedFields(**{k: extracted.get(k) for k in model_fields}) validates:
\* the Optional[str] fields take None or a str, confidence None or a number
ValidEF(d) ==
  /\ \A k \in EFStrKeys : Get(d, k).t \in {"none", "str"}
  /\ Get(d, "confidence").t \in {"none", "num"}
  /\ Get(d, "low_confidence").t \in {"none", "bool"}

MakeEF(d) == [k \in EFKeys |-> Get(d, k)]

(* -------------------- main.py: the retrieval query --------------------- *)
QueryKeys == <<"order_id", "tracking_no", "product_name", "issue_type">>

\* the loop of lines 158-161 from key number i on
RECURSIVE KeyParts(_, _)
KeyParts(d, i) ==
  IF i > Len(QueryKeys) THEN <<>>
  ELSE LET key == QueryKeys[i]
           val == Get(d, key)
       IN (IF Truthy(val) THEN <<key \o ": " \o val.s>> ELSE <<>>)
            \o KeyParts(d, i + 1)

\* a mutant: price is appended as a fifth key
BuildQuery_WithPrice(initial_message, d) ==
  LET parts == <<OrStr(initial_message, "")>> \o KeyParts(d, 1)
                 \o (IF Truthy(Get(d, "price"))
                     THEN <<"price: " \o Get(d, "price").s>> ELSE <<>>)
      joined == Join(SelectSeq(parts, LAMBDA p : p # ""), "\n")
  IN IF joined # "" THEN joined ELSE "customer support"

\* lines 157-162
BuildQuery(initial_message, d) ==
  LET parts == <<OrStr(initial_message, "")>> \o KeyParts(d, 1)
      joined == Join(SelectSeq(parts, LAMBDA p : p # ""), "\n")
  IN IF joined # "" THEN joined ELSE "customer support"

(* ------------------- gemini_service.py: embeddings --------------------- *)
MODEL_NAME == "all-MiniLM-L6-v2"

\* one vector per text, in order; a vector is identified by the model that
\* computed it and the text it was computed from
EmbedTexts(texts) ==
  [i \in 1..Len(texts) |-> [model |-> MODEL_NAME, text |-> texts[i]]]

NoVec == [model |-> "", text |-> ""]

(* ------------- opensearch_service.py: the Knowledge Store -------------- *)
FIELD_NAME_ID == "id"

\* documents similarity_search_by_vector can return (LangChain Documents):
\* the text as a sequence of characters, and the metadata the table holds
LCDoc1 ==
  [page_content |-> <<"r", "e", "f", "u", "n", "d">>,
   metadata |-> ("id" :> JStr("d1") @@ "_score" :> JNum("0.9")
                   @@ "title" :> JStr("Refunds") @@ "url" :> JStr("http://kb/1"))]
LCDoc2 ==
  [page_content |-> <<>>,
   metadata |-> ("id" :> JStr("d2") @@ "score" :> JNum("0.5"))]
\* a row whose score column holds text: float("n/a") raises ValueError
LCDocBad ==
  [page_content |-> <<"x">>,
   metadata |-> ("id" :> JStr("d3") @@ "score" :> JStr("n/a"))]
LCDocs == {LCDoc1, LCDoc2, LCDocBad}

\* the results a query for top_k neighbours can return: up to top_k
\* different documents, in the order the store ranks them
SearchResults(docs, top_k) ==
  {ds \in UNION {[1..n -> docs] : n \in 0..top_k} :
     \A i, j \in 1..Len(ds) : i # j => ds[i] # ds[j]}

\* "a or b" on values
Or(a, b) == IF Truthy(a) THEN a ELSE b

\* lines 124-131: one Match per Document
ToMatch(d) ==
  [id |-> Or(Get(d.metadata, "id"), Or(Get(d.metadata, FIELD_NAME_ID), JStr(""))),
   score |-> Or(Get(d.metadata, "_score"), Or(Get(d.metadata, "score"), JNum("0.0"))),
   metadata |-> ("text" :> JText(d.page_content)) @@ d.metadata]

\* query_vector: Result(matches)
QueryVector(docs) == [i \in 1..Len(docs) |-> ToMatch(docs[i])]

(* ----------------- main.py: matches to KBDoc (171-180) ----------------- *)
SnippetCap == 500

\* s[:n]
Take(cs, n) == SubSeq(cs, 1, IF Len(cs) < n THEN Len(cs) ELSE n)

\* a mutant: the text is not cut
Snippet_NoCap(meta) ==
  LET text == Get(meta, "text")
  IN IF Truthy(text) THEN text.s ELSE <<>>

\* (meta.get("text") or "")[:500]
Snippet(meta) ==
  LET text == Get(meta, "text")
  IN Take(IF Truthy(text) THEN text.s ELSE <<>>, SnippetCap)

\* whether KBDoc(...) or float(...) raises on this match: doc_id must be a
\* str, title and url a str or None, and the score must convert to float
MatchRaises(m) ==
  \/ m.id.t # "str"
  \/ Get(m.metadata, "title").t \notin {"none", "str"}
  \/ Get(m.metadata, "url").t \notin {"none", "str"}
  \/ Or(m.score, JNum("0.0")).t # "num"

ToKBDoc(m) ==
  [doc_id |-> m.id.s,
   title |-> Get(m.metadata, "title"),
   url |-> Get(m.metadata, "url"),
   snippet |-> Snippet(m.metadata),
   score |-> Or(m.score, JNum("0.0")).s]

\* the number of matches converted before the loop raises (all of them when
\* none raises)
RECURSIVE Converted(_, _)
Converted(ms, i) ==
  IF i > Len(ms) \/ MatchRaises(ms[i]) THEN i - 1 ELSE Converted(ms, i + 1)

LoopRaises(ms) == Converted(ms, 1) < Len(ms)

\* kb_docs and kb_doc_ids as the loop leaves them (partial when it raised)
LoopDocs(ms) == [i \in 1..Converted(ms, 1) |-> ToKBDoc(ms[i])]
LoopIds(ms) == [i \in 1..Converted(ms, 1) |-> ms[i].id.s]

(* --------------------- gemini_service.py: the chat --------------------- *)
\* what the POST of gemini_chat can do
ChatOutcomes ==
  { [kind |-> "request_exception", parts |-> <<>>],
    [kind |-> "other_exception", parts |-> <<>>],
    [kind |-> "no_candidates", parts |-> <<>>],
    [kind |-> "parts", parts |-> <<>>],
    [kind |-> "parts", parts |-> <<"">>],
    [kind |-> "parts", parts |-> <<"Your package T123", "is on the way.">>],
    [kind |-> "parts", parts |-> <<"Sorry, Something Went Wrong.">>] }

\* lines 170-193: the text returned, or raised = TRUE when an exception that
\* is no RequestException leaves the function
GeminiChat(o) ==
  CASE o.kind = "request_exception" ->
         [raised |-> FALSE, text |-> "Failed to connect to Gemini service."]
    [] o.kind = "other_exception" -> [raised |-> TRUE, text |-> ""]
    [] o.kind = "no_candidates" ->
         [raised |-> FALSE, text |-> "No content returned from Gemini."]
    [] o.kind = "parts" -> [raised |-> FALSE, text |-> Join(o.parts, " ")]

\* "something went wrong" in answer_text.lower(), for the texts of ChatOutcomes
HasWentWrong(text) == text = "Sorry, Something Went Wrong."

\* main.py lines 195-201
AnswerText(initial_message, o) ==
  LET r == GeminiChat(o)
  IN IF r.raised \/ r.text = "" \/ HasWentWrong(r.text)
     THEN OrStr(initial_message, "Hello!") \o " Hello! How are you today?"
     ELSE r.text

(* ------------------ gemini_service.py: field extraction ---------------- *)
\* JSON bodies the model endpoint can answer with
RFields ==
  Dict("order_id" :> JStr("A1") @@ "tracking_no" :> JNone
         @@ "product_name" :> JStr("") @@ "issue_type" :> JStr("late")
         @@ "price" :> JStr("9.99") @@ "confidence" :> JNum("0.9"))
\* a number where ExtractedFields wants a string
RNumber == Dict("order_id" :> JNum("12345"))
\* the provider's envelope: none of the extraction keys at the top level
REnvelope == Dict("candidates" :> JStr("[...]"))
ExtractJson == {RFields, RNumber, REnvelope, JList}

\* what the extractor's HTTP exchange can do: fail (transport error, HTTP
\* error status), answer with a body that is no JSON, or answer with JSON
ExtractOutcomes ==
  { [kind |-> "fail", json |-> Dict(EmptyDict)],
    [kind |-> "bad_json", json |-> Dict(EmptyDict)] }
  \cup { [kind |-> "ok", json |-> j] : j \in ExtractJson }

\* lines 72-131: every exception ends in "return {}"
GeminiVLExtract(o) == IF o.kind = "ok" THEN o.json ELSE Dict(EmptyDict)

\* lines 46-69 (text.strip() is empty for the texts of the model exactly
\* when text is empty)
GeminiTextExtract(text, o) ==
  IF ~Truthy(text) THEN Dict(EmptyDict)
  ELSE CASE o.kind = "ok" -> o.json
         [] o.kind = "bad_json" ->
              Dict("error" :> JStr("Invalid response from Gemini")
                     @@ "raw_text" :> JStr("<html>"))
         [] o.kind = "fail" -> Dict("error" :> JStr("Connection refused"))

(* ------------------------------- state --------------------------------- *)
VARIABLES
  pc,             \* where the handler of the current request stands
  req,            \* number of requests received so far
  body,           \* SubmitScreenshotRequest of the current request
  extracted,      \* main.py: extracted
  query_text,     \* main.py: query_text
  vec,            \* main.py: vec
  kb_docs,        \* main.py: kb_docs
  kb_doc_ids,     \* main.py: kb_doc_ids
  answer_text,    \* main.py: answer_text
  tickets,        \* table "tickets"
  chat_messages,  \* table "chat_messages"
  uuid,           \* number of uuid4() calls made so far
  response,       \* what the handler returned for the current request
  calls,          \* history: the stages the current request has run, in order
  failed,         \* history: the stages of the current request that failed
  tickets0,       \* history: table "tickets" when the request arrived
  chat0,          \* history: table "chat_messages" when the request arrived
  index,          \* the documents of the Knowledge Store (vector index)
  kb_items,       \* table "kb_items"
  kb_response,    \* what upload_kb_files returned for the last upload
  uploaded        \* history: the files of the last upload

vars == <<pc, req, body, extracted, query_text, vec, kb_docs, kb_doc_ids,
          answer_text, tickets, chat_messages, uuid, response, calls, failed,
          tickets0, chat0, index, kb_items, kb_response, uploaded>>

\* the state of the ingestion path
kb == <<index, kb_items, kb_response, uploaded>>

locals == <<body, extracted, query_text, vec, kb_docs, kb_doc_ids, answer_text>>
tables == <<tickets, chat_messages, uuid>>

\* the requests and the outcomes of the external calls a single request is
\* checked with (Spec)
ImageUrls == {"", "http://x/y.png"}
Messages == {JNone, JStr(""), JStr("hi")}
UserIds == {"u1"}
Bodies ==
  {[user_id |-> u, image_url |-> img, initial_message |-> msg, top_k |-> k] :
     u \in UserIds, img \in ImageUrls, msg \in Messages, k \in 1..MaxTopK}

\* the smaller choice a sequence of requests is checked with (SpecSeq)
SeqBodies ==
  {[user_id |-> "u1", image_url |-> img, initial_message |-> JStr("hi"),
    top_k |-> MaxTopK] : img \in ImageUrls}
SeqExtractOutcomes ==
  {o \in ExtractOutcomes : o.kind = "fail" \/ (o.kind = "ok" /\ o.json = RNumber)}
SeqLCDocs == {LCDoc1, LCDocBad}
SeqChatOutcomes ==
  {o \in ChatOutcomes : o.kind = "request_exception" \/ Len(o.parts) = 2}

NoBody == [user_id |-> "", image_url |-> "", initial_message |-> JNone, top_k |-> 0]
\* no upload answered yet
NoKBResponse == [status |-> 0, ok |-> FALSE, count |-> 0]
NoResponse == [status |-> 0, extracted |-> AllNull, kb |-> <<>>, answer |-> ""]

\* a mutant: the boundary answers with an error status
OuterExcept_Http500 ==
  [status |-> 500, extracted |-> AllNull, kb |-> <<>>, answer |-> ""]

\* lines 233-239: the response of the handler's outer except, sent as a
\* normal response (the handler raises no HTTPException)
OuterExcept ==
  [status |-> 200, extracted |-> AllNull, kb |-> <<>>,
   answer |-> "Hello! How can I help you today?"]

Init ==
  /\ pc = "idle"
  /\ req = 0
  /\ body = NoBody
  /\ extracted = Dict(EmptyDict)
  /\ query_text = ""
  /\ vec = NoVec
  /\ kb_docs = <<>>
  /\ kb_doc_ids = <<>>
  /\ answer_text = ""
  /\ tickets = {}
  /\ chat_messages = {}
  /\ uuid = 0
  /\ response = NoResponse
  /\ calls = <<>>
  /\ failed = {}
  /\ tickets0 = {}
  /\ chat0 = {}
  /\ index = {}
  /\ kb_items = {}
  /\ kb_response = NoKBResponse
  /\ uploaded = <<>>

\* a request arrives at the idle worker
Arrive ==
  /\ pc = "idle"
  /\ req' = req + 1
  /\ UNCHANGED <<extracted, query_text, vec, kb_docs, kb_doc_ids, answer_text,
                 tables, tickets0, chat0, kb>>

\* an exception reaches the outer except (line 233) from stage st
Abort(st) ==
  /\ pc' = "done"
  /\ response' = OuterExcept
  /\ calls' = calls \o <<st, "respond">>
  /\ failed' = failed \cup {st}

\* lines 139-141: the body parses and validates
ReceiveOK(bodies) ==
  /\ Arrive
  /\ body' \in bodies
  /\ pc' = "extract"
  /\ UNCHANGED <<response, calls, failed>>

\* lines 139-140 raise: no JSON, or a field missing or of the wrong type
ReceiveMalformed ==
  /\ Arrive
  /\ body' = NoBody
  /\ pc' = "done"
  /\ response' = OuterExcept
  /\ calls' = <<"respond">>
  /\ failed' = {"body"}

\* whether the extractor's exchange counts as a failed extraction
ExtractFailed(text_path, text, o) ==
  \/ o.kind # "ok"
  \/ text_path /\ ~Truthy(text)

\* lines 146-148: body.image_url is set, the image path.  gemini_vl_extract
\* catches every exception itself, so the except of line 152 never runs
ExtractImage(outcomes) ==
  /\ pc = "extract"
  /\ body.image_url # ""
  /\ \E o \in outcomes :
       /\ extracted' = GeminiVLExtract(o)
       /\ failed' = IF ExtractFailed(FALSE, JNone, o)
                    THEN failed \cup {"extract"} ELSE failed
  /\ calls' = Append(calls, "extract")
  /\ pc' = "build"
  /\ UNCHANGED <<kb, req, body, query_text, vec, kb_docs, kb_doc_ids, answer_text,
                 tables, response, tickets0, chat0>>

\* lines 149-151: no image_url, the text path.  gemini_text_extract catches
\* every exception itself as well
ExtractText(outcomes) ==
  /\ pc = "extract"
  /\ body.image_url = ""
  /\ \E o \in outcomes :
       LET text == JStr(OrStr(body.initial_message, ""))
       IN /\ extracted' = GeminiTextExtract(text, o)
          /\ failed' = IF ExtractFailed(TRUE, text, o)
                       THEN failed \cup {"extract"} ELSE failed
  /\ calls' = Append(calls, "extract")
  /\ pc' = "build"
  /\ UNCHANGED <<kb, req, body, query_text, vec, kb_docs, kb_doc_ids, answer_text,
                 tables, response, tickets0, chat0>>

\* lines 157-162; extracted.get raises AttributeError when the extractor
\* handed back a JSON array
BuildQueryText ==
  /\ pc = "build"
  /\ IF extracted.kind = "dict"
     THEN /\ query_text' = BuildQuery(body.initial_message, extracted.d)
          /\ calls' = Append(calls, "build")
          /\ pc' = "embed"
          /\ UNCHANGED <<response, failed>>
     ELSE /\ Abort("build")
          /\ UNCHANGED query_text
  /\ UNCHANGED <<kb, req, body, extracted, vec, kb_docs, kb_doc_ids, answer_text,
                 tables, tickets0, chat0>>

\* line 165
EmbedOK ==
  /\ pc = "embed"
  /\ vec' = EmbedTexts(<<query_text>>)[1]
  /\ calls' = Append(calls, "embed")
  /\ pc' = "store"
  /\ UNCHANGED <<kb, req, body, extracted, query_text, kb_docs, kb_doc_ids,
                 answer_text, tables, response, failed, tickets0, chat0>>

\* a mutant: the exception of line 165 leaves the handler uncaught
EmbedFail_Escapes ==
  /\ pc = "embed"
  /\ pc' = "done"
  /\ calls' = Append(calls, "embed")
  /\ failed' = failed \cup {"embed"}
  /\ UNCHANGED <<kb, req, locals, tables, response, tickets0, chat0>>

\* line 165 raises (the model cannot be loaded, encode fails): no try around
\* it but the outer one
EmbedFail ==
  /\ pc = "embed"
  /\ Abort("embed")
  /\ UNCHANGED <<kb, req, locals, tables, tickets0, chat0>>

\* a mutant: the except of line 181 keeps what the loop had appended
StoreReturns_KeepsPartial(docs) ==
  /\ pc = "store"
  /\ \E ds \in SearchResults(docs, body.top_k) :
       LET ms == QueryVector(ds)
       IN /\ kb_docs' = LoopDocs(ms)
          /\ kb_doc_ids' = LoopIds(ms)
          /\ failed' = IF LoopRaises(ms) THEN failed \cup {"convert"} ELSE failed
  /\ calls' = Append(calls, "store")
  /\ pc' = "chat"
  /\ UNCHANGED <<kb, req, body, extracted, query_text, vec, answer_text, tables,
                 response, tickets0, chat0>>

\* lines 170-183, the store answers: the loop converts the matches, and the
\* except of line 181 empties both lists when a conversion raises
StoreReturns(docs) ==
  /\ pc = "store"
  /\ \E ds \in SearchResults(docs, body.top_k) :
       LET ms == QueryVector(ds)
       IN /\ kb_docs' = IF LoopRaises(ms) THEN <<>> ELSE LoopDocs(ms)
          /\ kb_doc_ids' = IF LoopRaises(ms) THEN <<>> ELSE LoopIds(ms)
          /\ failed' = IF LoopRaises(ms) THEN failed \cup {"convert"} ELSE failed
  /\ calls' = Append(calls, "store")
  /\ pc' = "chat"
  /\ UNCHANGED <<kb, req, body, extracted, query_text, vec, answer_text, tables,
                 response, tickets0, chat0>>

\* lines 170, 181-183: query_vector raises (the store is unreachable)
StoreUnreachable ==
  /\ pc = "store"
  /\ kb_docs' = <<>>
  /\ kb_doc_ids' = <<>>
  /\ failed' = failed \cup {"store"}
  /\ calls' = Append(calls, "store")
  /\ pc' = "chat"
  /\ UNCHANGED <<kb, req, body, extracted, query_text, vec, answer_text, tables,
                 response, tickets0, chat0>>

\* whether the chat call failed or answered nothing usable
ChatFailed(o) == o.kind # "parts" \/ Join(o.parts, " ") = ""

\* lines 186-201
Chat(outcomes) ==
  /\ pc = "chat"
  /\ \E o \in outcomes :
       /\ answer_text' = AnswerText(body.initial_message, o)
       /\ failed' = IF ChatFailed(o) THEN failed \cup {"chat"} ELSE failed
  /\ calls' = Append(calls, "chat")
  /\ pc' = "ticket"
  /\ UNCHANGED <<kb, req, body, extracted, query_text, vec, kb_docs, kb_doc_ids,
                 tables, response, tickets0, chat0>>

\* lines 204-211
NewTicket ==
  [id |-> uuid + 1, user_id |-> body.user_id, image_url |-> body.image_url,
   extracted |-> extracted, answer |-> answer_text, kb_doc_ids |-> kb_doc_ids]

\* a mutant: the ticket is merged under one fixed id, replacing the row
TicketOK_FixedId ==
  /\ pc = "ticket"
  /\ tickets' = {t \in tickets : t.id # 1} \cup {[NewTicket EXCEPT !.id = 1]}
  /\ uuid' = uuid + 1
  /\ calls' = Append(calls, "ticket")
  /\ pc' = "history"
  /\ UNCHANGED <<kb, req, locals, chat_messages, response, failed, tickets0, chat0>>

\* lines 204-213: the ticket is added and committed
TicketOK ==
  /\ pc = "ticket"
  /\ tickets' = tickets \cup {NewTicket}
  /\ uuid' = uuid + 1
  /\ calls' = Append(calls, "ticket")
  /\ pc' = "history"
  /\ UNCHANGED <<kb, req, locals, chat_messages, response, failed, tickets0, chat0>>

\* a mutant: the failed commit is swallowed and the handler goes on
TicketFail_Swallowed ==
  /\ pc = "ticket"
  /\ uuid' = uuid + 1
  /\ calls' = Append(calls, "ticket")
  /\ failed' = failed \cup {"ticket"}
  /\ pc' = "history"
  /\ UNCHANGED <<kb, req, locals, tickets, chat_messages, response, tickets0, chat0>>

\* line 213 raises: nothing is committed
TicketFail ==
  /\ pc = "ticket"
  /\ uuid' = uuid + 1
  /\ Abort("ticket")
  /\ UNCHANGED <<kb, req, locals, tickets, chat_messages, tickets0, chat0>>

\* lines 216-222
NewChatMessage ==
  [id |-> uuid + 1, user_id |-> body.user_id, role |-> "bot",
   content_type |-> "text", content |-> answer_text]

\* lines 216-224: the bot message is added and committed
HistoryOK ==
  /\ pc = "history"
  /\ chat_messages' = chat_messages \cup {NewChatMessage}
  /\ uuid' = uuid + 1
  /\ calls' = Append(calls, "history")
  /\ pc' = "respond"
  /\ UNCHANGED <<kb, req, locals, tickets, response, failed, tickets0, chat0>>

\* a mutant: the failed history write is tried again
HistoryFail_Retry ==
  /\ pc = "history"
  /\ uuid' = uuid + 1
  /\ calls' = Append(calls, "history")
  /\ failed' = failed \cup {"history"}
  /\ pc' = "history"
  /\ UNCHANGED <<kb, req, locals, tickets, chat_messages, response, tickets0, chat0>>

\* line 224 raises: the ticket committed at line 213 stays
HistoryFail ==
  /\ pc = "history"
  /\ uuid' = uuid + 1
  /\ Abort("history")
  /\ UNCHANGED <<kb, req, locals, tickets, chat_messages, tickets0, chat0>>

\* lines 226-231; ExtractedFields(...) raises ValidationError on a value of
\* the wrong type, which the outer except answers
Respond ==
  /\ pc = "respond"
  /\ IF ValidEF(extracted.d)
     THEN /\ response' = [status |-> 200, extracted |-> MakeEF(extracted.d),
                          kb |-> kb_docs, answer |-> answer_text]
          /\ calls' = Append(calls, "respond")
          /\ pc' = "done"
          /\ UNCHANGED failed
     ELSE Abort("respond")
  /\ UNCHANGED <<kb, req, locals, tables, tickets0, chat0>>

\* the handler has returned: its locals are gone, and the worker is free for
\* the next request
NextRequest ==
  /\ pc = "done"
  /\ req < MaxRequests
  /\ pc' = "idle"
  /\ body' = NoBody
  /\ extracted' = Dict(EmptyDict)
  /\ query_text' = ""
  /\ vec' = NoVec
  /\ kb_docs' = <<>>
  /\ kb_doc_ids' = <<>>
  /\ answer_text' = ""
  /\ response' = NoResponse
  /\ calls' = <<>>
  /\ failed' = {}
  /\ tickets0' = tickets
  /\ chat0' = chat_messages
  /\ UNCHANGED <<kb, req, tables>>

\* steps whose outcome is not drawn from a set of inputs
Fixed ==
  \/ ReceiveMalformed
  \/ BuildQueryText
  \/ EmbedOK
  \/ EmbedFail
  \/ StoreUnreachable
  \/ TicketOK
  \/ TicketFail
  \/ HistoryOK
  \/ HistoryFail
  \/ Respond

\* one request, from the empty tables
Next ==
  \/ ReceiveOK(Bodies)
  \/ ExtractImage(ExtractOutcomes)
  \/ ExtractText(ExtractOutcomes)
  \/ StoreReturns(LCDocs)
  \/ Chat(ChatOutcomes)
  \/ Fixed

Spec == Init /\ [][Next]_vars

\* up to MaxRequests requests, one after the other
NextSeq ==
  \/ ReceiveOK(SeqBodies)
  \/ ExtractImage(SeqExtractOutcomes)
  \/ ExtractText(SeqExtractOutcomes)
  \/ StoreReturns(SeqLCDocs)
  \/ Chat(SeqChatOutcomes)
  \/ Fixed
  \/ NextRequest

SpecSeq == Init /\ [][NextSeq]_vars

(* ---------------------- main.py: KB ingestion -------------------------- *)
\* largest number of rows in an uploaded file
MaxRows == 2

QWEN_EMBED_MODEL == "text-embedding-v1"

\* qwen_embed: one vector per text, computed by the Qwen embedding model
QwenEmbed(texts) ==
  [i \in 1..Len(texts) |-> [model |-> QWEN_EMBED_MODEL, text |-> texts[i]]]

\* QwenEmbeddingAdapter.embed_documents
AdapterEmbedDocuments(texts) == QwenEmbed(texts)

\* rows of an uploaded table: id, title, url, text (a cell may be missing)
Hello == <<"h", "e", "l", "l", "o">>
RowD1 == [id |-> JStr("d1"), title |-> JStr("Greeting"), url |-> JNone,
          text |-> JText(Hello)]
RowD1b == [id |-> JStr("d1"), title |-> JNone, url |-> JNone,
           text |-> JText(<<"b", "y", "e">>)]
RowD2 == [id |-> JStr("d2"), title |-> JNone, url |-> JStr("http://kb/2"),
          text |-> JText(<<"o", "k">>)]
RowBlank == [id |-> JStr("d3"), title |-> JNone, url |-> JNone,
             text |-> JText(<<" ">>)]
RowNoText == [id |-> JStr("d4"), title |-> JNone, url |-> JNone, text |-> JNone]
RowNoId == [id |-> JNone, title |-> JNone, url |-> JNone, text |-> JText(Hello)]
Rows == {RowD1, RowD1b, RowD2, RowBlank, RowNoText, RowNoId}

RowSeqs == UNION {[1..n -> Rows] : n \in 0..MaxRows}

\* the uploads: one file of any kind, or a file that is skipped and a table
Uploads ==
  {<<[ext |-> e, rows |-> rs]>> : e \in {"csv", "json", "txt"}, rs \in RowSeqs}
  \cup {<<[ext |-> "txt", rows |-> <<RowD2>>], [ext |-> "csv", rows |-> <<r>>]>> :
          r \in Rows}
  \cup {<<[ext |-> "json", rows |-> <<RowD1>>], [ext |-> "csv", rows |-> <<r>>]>> :
          r \in Rows}

\* text.strip(): whether anything but blanks is left
IsBlank(cs) == \A i \in 1..Len(cs) : cs[i] = " "

\* row.get("text") or ""
RowText(row) == IF Truthy(row.text) THEN row.text.s ELSE <<>>

\* lines 86-94: the rows of the files that are read, in order
RECURSIVE FileRows(_)
FileRows(files) ==
  IF files = <<>> THEN <<>>
  ELSE (IF files[1].ext \in {"csv", "json"} THEN files[1].rows ELSE <<>>)
         \o FileRows(Tail(files))

\* lines 95-97: the rows whose text is not blank
Surviving(files) == SelectSeq(FileRows(files), LAMBDA r : ~IsBlank(RowText(r)))

\* number of rows among the first i that get a generated id
Generated(rows, i) == Cardinality({j \in 1..i : ~Truthy(rows[j].id)})

\* lines 98-103: items
Items(files, u) ==
  LET rows == Surviving(files)
  IN [i \in 1..Len(rows) |->
        [id |-> IF Truthy(rows[i].id) THEN rows[i].id.s
                ELSE "uuid-" \o ToString(u + Generated(rows, i)),
         title |-> rows[i].title,
         url |-> rows[i].url,
         text |-> RowText(rows[i])]]

\* lines 113-119: vectors
Vectors(items, embs) ==
  [i \in 1..Len(items) |->
     [id |-> items[i].id, values |-> embs[i],
      metadata |-> [title |-> items[i].title, url |-> items[i].url,
                    text |-> items[i].text]]]

\* lines 120-121, session.merge for the first n items: the row with the
\* item's primary key is replaced, or the row is inserted
RECURSIVE Merge(_, _, _)
Merge(table, items, n) ==
  IF n = 0 THEN table
  ELSE LET t == Merge(table, items, n - 1)
       IN {r \in t : r.id # items[n].id}
            \cup {[id |-> items[n].id, title |-> items[n].title,
                   url |-> items[n].url, text |-> items[n].text]}

\* AlibabaCloudOpenSearch.add_texts for the first n texts: each text is
\* embedded by the store's embedding and written under its id, replacing
\* the document that has this id
RECURSIVE AddTexts(_, _, _, _, _)
AddTexts(idx, texts, ids, metadatas, n) ==
  IF n = 0 THEN idx
  ELSE LET i == AddTexts(idx, texts, ids, metadatas, n - 1)
       IN {d \in i : d.id # ids[n]}
            \cup {[id |-> ids[n], text |-> texts[n], metadata |-> metadatas[n],
                   vector |-> AdapterEmbedDocuments(<<texts[n]>>)[1]]}

\* opensearch_service.py lines 83-102: the items with a text, their ids and
\* their metadata without the text go to add_texts; "values" does not
UpsertVectors(idx, vectors) ==
  LET kept == SelectSeq(vectors, LAMBDA it : it.metadata.text # <<>>)
      texts == [i \in 1..Len(kept) |-> kept[i].metadata.text]
      ids == [i \in 1..Len(kept) |-> kept[i].id]
      metadatas == [i \in 1..Len(kept) |->
                      [title |-> kept[i].metadata.title, url |-> kept[i].metadata.url]]
  IN AddTexts(idx, texts, ids, metadatas, Len(kept))

\* an upload arrives at the idle worker
Upload(files) ==
  /\ pc = "idle"
  /\ req < MaxRequests
  /\ req' = req + 1
  /\ uploaded' = files
  /\ uuid' = uuid + Generated(Surviving(files), Len(Surviving(files)))
  /\ UNCHANGED <<pc, locals, tickets, chat_messages, response, calls, failed,
                 tickets0, chat0>>

\* lines 105-106: nothing to ingest
UploadNoItems(uploads) ==
  \E files \in uploads :
    /\ Upload(files)
    /\ Items(files, uuid) = <<>>
    /\ kb_response' = [status |-> 200, ok |-> FALSE, count |-> 0]
    /\ UNCHANGED <<index, kb_items>>

\* line 110 raises: the handler has no try around it, the caller gets 500
UploadEmbedFails(uploads) ==
  \E files \in uploads :
    /\ Upload(files)
    /\ Items(files, uuid) # <<>>
    /\ kb_response' = [status |-> 500, ok |-> FALSE, count |-> 0]
    /\ UNCHANGED <<index, kb_items>>

\* line 123 raises: nothing is committed, the caller gets 500
UploadCommitFails(uploads) ==
  \E files \in uploads :
    /\ Upload(files)
    /\ Items(files, uuid) # <<>>
    /\ kb_response' = [status |-> 500, ok |-> FALSE, count |-> 0]
    /\ UNCHANGED <<index, kb_items>>

\* lines 109-132, upsert_vectors raises (store unreachable): the except of
\* line 129 logs a warning and the handler reports success
UploadStoreFails(uploads) ==
  \E files \in uploads :
    LET items == Items(files, uuid)
    IN /\ Upload(files)
       /\ items # <<>>
       /\ kb_items' = Merge(kb_items, items, Len(items))
       /\ UNCHANGED index
       /\ kb_response' = [status |-> 200, ok |-> TRUE, count |-> Len(items)]

\* lines 109-132, every call succeeds
UploadOK(uploads) ==
  \E files \in uploads :
    LET items == Items(files, uuid)
        embs == EmbedTexts([i \in 1..Len(items) |-> items[i].text])
    IN /\ Upload(files)
       /\ items # <<>>
       /\ kb_items' = Merge(kb_items, items, Len(items))
       /\ index' = UpsertVectors(index, Vectors(items, embs))
       /\ kb_response' = [status |-> 200, ok |-> TRUE, count |-> Len(items)]

\* uploads, one after the other
NextKB ==
  \/ UploadNoItems(Uploads)
  \/ UploadEmbedFails(Uploads)
  \/ UploadCommitFails(Uploads)
  \/ UploadStoreFails(Uploads)
  \/ UploadOK(Uploads)

SpecKB == Init /\ [][NextKB]_vars

(* ------------- a request after the ingestion of a long text ------------ *)
MaxTextLen == 600

\* a text of n characters, the character at i telling i's last digit
LongText(n) == [i \in 1..n |-> ToString(i % 10)]
LongRow(n) ==
  [id |-> JStr("long"), title |-> JStr("Long"), url |-> JNone,
   text |-> JText(LongText(n))]
LongUploads ==
  {<<[ext |-> "json", rows |-> <<LongRow(n)>>]>> : n \in 1..MaxTextLen}

\* opensearch_service.py lines 114-131: the Documents a search can return are
\* those of the index, with the text as page_content and the id, the score
\* and the other columns as metadata; LCDoc2 is a row of the table that has
\* no text
StoreDocs(idx) ==
  {[page_content |-> d.text,
    metadata |-> ("id" :> JStr(d.id) @@ "score" :> JNum("0.5")
                    @@ "title" :> d.metadata.title @@ "url" :> d.metadata.url)] :
     d \in idx} \cup {LCDoc2}

SnippetBodies ==
  {[user_id |-> "u1", image_url |-> "", initial_message |-> JStr("hi"),
    top_k |-> k] : k \in 1..MaxTopK}
SnippetExtractOutcomes == {o \in ExtractOutcomes : o.kind = "fail"}
SnippetChatOutcomes == {o \in ChatOutcomes : o.kind = "parts" /\ Len(o.parts) = 2}

\* the first upload: one row with a long text
UploadLong == index = {} /\ UploadOK(LongUploads)

\* one upload of a long text at most, and one request
NextSnippet ==
  \/ UploadLong
  \/ ReceiveOK(SnippetBodies)
  \/ ExtractText(SnippetExtractOutcomes)
  \/ StoreReturns(StoreDocs(index))
  \/ Chat(SnippetChatOutcomes)
  \/ Fixed

SpecSnippet == Init /\ [][NextSnippet]_vars

(* ----------------- the query builder on every field set ---------------- *)
\* the keys a field set may hold and the values a key may have: None, the
\* empty string, a string
FieldSetKeys ==
  {"order_id", "tracking_no", "product_name", "issue_type", "price", "confidence"}
FieldValues == {JNone, JStr(""), JStr("A1")}
FieldSets == UNION {[K -> FieldValues] : K \in SUBSET FieldSetKeys}

\* the handler stands before line 157 with some message and some field set
InitQuery ==
  /\ pc = "build"
  /\ req = 1
  /\ \E msg \in Messages :
       body = [user_id |-> "u1", image_url |-> "http://x/y.png",
               initial_message |-> msg, top_k |-> 1]
  /\ \E d \in FieldSets : extracted = Dict(d)
  /\ query_text = ""
  /\ vec = NoVec
  /\ kb_docs = <<>>
  /\ kb_doc_ids = <<>>
  /\ answer_text = ""
  /\ tickets = {}
  /\ chat_messages = {}
  /\ uuid = 0
  /\ response = NoResponse
  /\ calls = <<"extract">>
  /\ failed = {}
  /\ tickets0 = {}
  /\ chat0 = {}
  /\ index = {}
  /\ kb_items = {}
  /\ kb_response = NoKBResponse
  /\ uploaded = <<>>

NextQuery == BuildQueryText

SpecQuery == InitQuery /\ [][NextQuery]_vars

(* ------------------------------- claims -------------------------------- *)
Range(f) == {f[i] : i \in DOMAIN f}

\* rows the current request has inserted
NewTickets == tickets \ tickets0
NewChatMessages == chat_messages \ chat0

\* the response of section 6 for an unrecoverable error, written out
GreetingFallback ==
  [status |-> 200,
   extracted |-> [k \in EFKeys |-> JNone],
   kb |-> <<>>,
   answer |-> "Hello! How can I help you today?"]

\* failures no stage-local fallback handles
Unhandled == {"body", "build", "embed", "ticket", "history", "respond"}

KBDocFields == {"doc_id", "title", "url", "snippet", "score"}

\* C1: whatever stages fail, a finished request has returned a normal
\* response of the shape {extracted, kb, answer} (no exception escaped), and
\* when one of the failures had no stage-local fallback that response is
\* exactly {extracted: all null, kb: [], answer: the fixed greeting}.
C1_AlwaysResponds ==
  pc = "done" =>
    /\ response.status = 200
    /\ DOMAIN response.extracted = EFKeys
    /\ \A i \in 1..Len(response.kb) : DOMAIN response.kb[i] = KBDocFields
    /\ response.answer # ""
    /\ (failed \cap Unhandled # {} => response = GreetingFallback)
    /\ (failed \cap Unhandled = {} => response.answer = answer_text)

\* C1 witness: extraction, store and chat fell back, the ticket write then
\* failed, and the caller got the greeting
C1_Witness ==
  /\ pc = "done"
  /\ {"extract", "store", "chat", "ticket"} \subseteq failed
  /\ response = GreetingFallback

\* C2: once the store query has failed (unreachable, or a match that cannot
\* be converted, also after earlier matches were converted) kb_docs and
\* kb_doc_ids are empty, the request goes on through the chat call and the
\* ticket write, and it ends with a response whose kb is empty and whose
\* answer is not; a ticket it wrote has kb_doc_ids = [].
C2_StoreFailureDegrades ==
  failed \cap {"store", "convert"} # {} =>
    /\ kb_docs = <<>>
    /\ kb_doc_ids = <<>>
    /\ pc \in {"chat", "ticket", "history", "respond", "done"}
    /\ \A t \in NewTickets : t.kb_doc_ids = <<>>
    /\ pc = "done" =>
         /\ {"chat", "ticket"} \subseteq Range(calls)
         /\ response.status = 200
         /\ response.kb = <<>>
         /\ response.answer # ""

\* C2 witness: a conversion raised, and the request still answered from the
\* chat model and wrote its ticket
C2_Witness ==
  /\ pc = "done"
  /\ "convert" \in failed
  /\ failed \cap Unhandled = {}
  /\ Cardinality(NewTickets) = 1
  /\ response.answer = "Your package T123 is on the way."

\* C3: when embedding the query fails the request is not abandoned: the chat
\* model is called, a ticket is written, and the response carries the
\* generated answer with kb = [].
C3_EmbedFailureDegrades ==
  (pc = "done" /\ "embed" \in failed) =>
    /\ "chat" \in Range(calls)
    /\ Cardinality(NewTickets) = 1
    /\ response.kb = <<>>
    /\ response.answer = answer_text
    /\ answer_text # ""

\* texts gemini_chat returns in place of an answer
ChatClientTexts ==
  {"Failed to connect to Gemini service.", "No content returned from Gemini."}

\* C4: when the chat call fails or answers nothing usable, the answer (kept
\* in answer_text, stored on the ticket and returned) is one fixed fallback
\* string, the same whatever the request, and never a text of the chat client.
C4_FixedFallback ==
  ("chat" \in failed /\ pc \in {"ticket", "history", "respond", "done"}) =>
    /\ answer_text \notin ChatClientTexts
    /\ answer_text = "Hello! Hello! How are you today?"
    /\ \A t \in NewTickets : t.answer = answer_text

\* C5 as claimed: a malformed body ends in a client error, a failed ticket
\* write in a server error, and neither in a normal response.
C5_FatalPropagates ==
  pc = "done" =>
    /\ ("body" \in failed => response.status \in 400..499)
    /\ ("ticket" \in failed => response.status \in 500..599)

\* C5 as amended: a malformed body and a failed ticket write both end in the
\* same normal response, {extracted: all null, kb: [], answer: the fixed
\* greeting}; no error status is produced and the two are not told apart.
C5_FatalDegrades ==
  (pc = "done" /\ failed \cap {"body", "ticket"} # {}) =>
    response = GreetingFallback

\* C5 witness: the ticket write failed after every earlier stage succeeded
C5_Witness ==
  /\ pc = "done"
  /\ failed = {"ticket"}
  /\ NewTickets = {}
  /\ answer_text = "Your package T123 is on the way."
  /\ response = GreetingFallback

\* C6: when extraction fails, on the image path and on the text path, the
\* value of extracted that the query is built from and the ticket stores is
\* the empty field set.
C6_ExtractFailureEmpty ==
  "extract" \in failed =>
    /\ extracted = Dict(EmptyDict)
    /\ \A t \in NewTickets : t.extracted = Dict(EmptyDict)

StageOrder ==
  <<"extract", "build", "embed", "store", "chat", "ticket", "history", "respond">>

\* C7: the stages of a request run in the order extraction, query building,
\* embedding, store query, chat, ticket write, history write, response, each
\* after the one before it and none twice: the stages run so far are the
\* first stages of that order, closed by the response once the handler is done.
C7_StagesInOrder ==
  /\ \A i \in 1..Len(calls) :
       \/ i <= Len(StageOrder) /\ calls[i] = StageOrder[i]
       \/ i = Len(calls) /\ calls[i] = "respond" /\ pc = "done"
  /\ pc \in Range(StageOrder) =>
       /\ Len(calls) < Len(StageOrder)
       /\ pc = StageOrder[Len(calls) + 1]

\* C7 witness: a request that ran every stage
C7_Witness == pc = "done" /\ calls = StageOrder /\ failed = {}

\* C9: the history write is attempted only once this request's ticket is
\* committed, a failed history write leaves that ticket in the table, and a
\* chat message of this request never exists without its ticket.
C9_TicketBeforeHistory ==
  /\ (pc = "history" \/ "history" \in Range(calls)) => Cardinality(NewTickets) = 1
  /\ "history" \in failed => Cardinality(NewTickets) = 1
  /\ NewChatMessages # {} =>
       /\ Cardinality(NewTickets) = 1
       /\ \A m \in NewChatMessages : \A t \in NewTickets : t.id < m.id

\* C9 witness: the second request's history write failed and its ticket stays
C9_Witness ==
  /\ req = 2
  /\ pc = "done"
  /\ "history" \in failed
  /\ Cardinality(NewTickets) = 1
  /\ NewChatMessages = {}

\* C10: every step leaves the rows of both tables in place; a request inserts
\* at most one ticket and at most one bot message; and a request that ends
\* after its ticket write succeeded has inserted exactly one ticket.
C10_AppendOnly ==
  [][ /\ tickets \subseteq tickets'
      /\ chat_messages \subseteq chat_messages'
      /\ Cardinality(tickets' \ tickets0') <= 1
      /\ Cardinality(chat_messages' \ chat0') <= 1
      /\ \A m \in chat_messages' \ chat0' : m.role = "bot"
      /\ (pc' = "done" /\ "ticket" \in Range(calls') /\ "ticket" \notin failed')
           => Cardinality(tickets' \ tickets0') = 1 ]_vars

\* C10 witness: the second request has added its ticket and its message to
\* those of the first
C10_Witness ==
  /\ req = 2
  /\ pc = "done"
  /\ Cardinality(tickets0) = 1
  /\ Cardinality(chat0) = 1
  /\ Cardinality(tickets) = 2
  /\ Cardinality(chat_messages) = 2

\* the query section 4.4 describes: the message when it is not empty, then
\* "<key>: <value>" for the keys order_id, tracking_no, product_name,
\* issue_type, in that order, that are present with a value that is neither
\* null nor empty; "customer support" when nothing is left
ExpectedLine(d, k) ==
  IF k \in DOMAIN d /\ d[k] # JNone /\ d[k] # JStr("")
  THEN <<k \o ": " \o d[k].s>> ELSE <<>>

ExpectedQuery(msg, d) ==
  LET lines == (IF msg # JNone /\ msg # JStr("") THEN <<msg.s>> ELSE <<>>)
                 \o ExpectedLine(d, "order_id") \o ExpectedLine(d, "tracking_no")
                 \o ExpectedLine(d, "product_name") \o ExpectedLine(d, "issue_type")
  IN IF lines = <<>> THEN "customer support" ELSE Join(lines, "\n")

\* C8: for every message (absent, empty or not) and every field set the
\* query built is the newline-join of the non-empty message and one line
\* "<key>: <value>" per present key among order_id, tracking_no,
\* product_name, issue_type in that order, null and empty values skipped and
\* price and confidence left out; with nothing to join it is "customer support".
C8_QueryText ==
  pc = "embed" => query_text = ExpectedQuery(body.initial_message, extracted.d)

\* C8 witness: a message, two keys with values, a null, an empty string and a
\* price
C8_Witness ==
  /\ pc = "embed"
  /\ body.initial_message = JStr("hi")
  /\ extracted.d = ("order_id" :> JStr("A1") @@ "tracking_no" :> JNone
                      @@ "product_name" :> JStr("") @@ "issue_type" :> JStr("A1")
                      @@ "price" :> JStr("A1"))
  /\ query_text = "hi\norder_id: A1\nissue_type: A1"

\* the rows of the last upload that have a text with something but blanks
\* in it, and those that have not
HasText(r) == r.text # JNone /\ \E i \in 1..Len(r.text.s) : r.text.s[i] # " "
UploadedRows == Range(FileRows(uploaded))
TextRows == {r \in UploadedRows : HasText(r)}
BlankRows == {r \in UploadedRows : ~HasText(r)}

\* whether a table (kb_items or the index) holds the row: under the row's id
\* when it has one, with the row's text otherwise
Holds(table, r) ==
  \E d \in table : IF r.id # JNone THEN d.id = r.id.s ELSE d.text = r.text.s

\* C11: after an upload answered {ok: true, count: n}, n is the number of
\* uploaded rows with a non-blank text, each of these rows is in the
\* Knowledge Store and in kb_items, and the rows with a blank text are in
\* neither.
C11_IngestedEverywhere ==
  (kb_response.status = 200 /\ kb_response.ok) =>
    /\ kb_response.count = Len(SelectSeq(FileRows(uploaded), HasText))
    /\ \A r \in TextRows : Holds(index, r) /\ Holds(kb_items, r)
    /\ \A r \in BlankRows : r.id # JNone =>
         /\ \A d \in index : d.id # r.id.s
         /\ \A k \in kb_items : k.id # r.id.s

\* the rows with an id and a text that an upload holds twice, or that
\* kb_items held before it (from an earlier upload that answered ok) with the
\* same text
IngestedTwice(files, before) ==
  {r \in {x \in Range(FileRows(files)) : HasText(x)} : r.id # JNone /\
     \/ \E i, j \in 1..Len(FileRows(files)) :
          i # j /\ FileRows(files)[i] = r /\ FileRows(files)[j] = r
     \/ \E k \in before : k.id = r.id.s /\ k.text = r.text.s}

\* C12: when an upload that answers ok ingests an {id, text} for the second
\* time (twice in the batch, or after an earlier upload), kb_items holds
\* exactly one row with that id and the Knowledge Store exactly one
\* document with that id.
C12_IdempotentUpsert ==
  [][ (req' # req /\ kb_response'.status = 200 /\ kb_response'.ok) =>
        \A r \in IngestedTwice(uploaded', kb_items) :
          /\ Cardinality({k \in kb_items' : k.id = r.id.s}) = 1
          /\ Cardinality({d \in index' : d.id = r.id.s}) = 1 ]_vars

\* the first 500 characters of a text, the whole text when it is shorter
ExpectedSnippet(text) ==
  [j \in 1..(IF Len(text) > 500 THEN 500 ELSE Len(text)) |-> text[j]]

\* the snippet the document of the store with this id must give
SnippetOf(docs) ==
  \A i \in 1..Len(docs) :
    \E d \in StoreDocs(index) :
      /\ d.metadata["id"].s = docs[i].doc_id
      /\ docs[i].snippet = ExpectedSnippet(d.page_content)

\* C13: for every match the store returned, the snippet of the KBDoc (in
\* the handler and in the response) is the first 500 characters of the
\* document's text: the whole text when it is shorter, the empty string
\* when there is none.
C13_SnippetIsPrefix ==
  /\ SnippetOf(kb_docs)
  /\ (pc = "done" /\ response.status = 200) => SnippetOf(response.kb)

\* a text of 600 characters was ingested and came back with a snippet of 500
C13_Witness ==
  /\ pc = "done"
  /\ response.status = 200
  /\ \E i \in 1..Len(response.kb) : \E d \in index :
       /\ d.id = response.kb[i].doc_id
       /\ Len(d.text) = 600
       /\ Len(response.kb[i].snippet) = 500
       /\ response.kb[i].snippet[500] = "0"

\* C14: every document of the Knowledge Store holds the vector that the
\* provider embedding the retrieval query (embed_texts, line 165) computes
\* from the document's text, which is the one the ingestion handler computed.
C14_SameProvider ==
  \A d \in index : d.vector = EmbedTexts(<<d.text>>)[1]

\* C15: when the request has committed a ticket, the response agrees with
\* it: the answer of the response is the ticket's answer and the content of
\* the bot message (when one was written), and the ticket's kb_doc_ids are
\* the doc_id of the response's kb, in order.
C15_ResponseAgreesWithTicket ==
  pc = "done" =>
    \A t \in NewTickets :
      /\ response.answer = t.answer
      /\ \A c \in NewChatMessages : c.content = response.answer
      /\ t.kb_doc_ids = [i \in 1..Len(response.kb) |-> response.kb[i].doc_id]
====
